---- MODULE Spec2Model ----
(***************************************************************************)
(* Model of app.py: the bulk HTML translator.                              *)
(*                                                                         *)
(*   get_gemini_translation  - one remote translation with a retry loop    *)
(*   the upload / translate script body - validation and the row loop      *)
(*                                                                         *)
(* Text is a sequence of tokens; the token " " is white space.  A Python   *)
(* value is a record [type, val] so that str, float (NaN) and int cells    *)
(* can sit in the same column.  Row positions are 0-based as in the        *)
(* source (df.iterrows over a RangeIndex); row `index` is df[index + 1].   *)
(***************************************************************************)
EXTENDS Integers, Sequences, FiniteSets, TLC

VARIABLES
    pc,          \* where the script is
    api_key,     \* st.sidebar.text_input value
    columns,     \* df.columns
    uploaded_file, \* the table as read by pd.read_excel; never assigned
    df,          \* the rows of the table, each a function over `columns`
    index,       \* loop variable of `for index, row in df.iterrows()`
    attempt,     \* loop variable of `for attempt in range(max_retries)`
    delay,       \* local `delay` of get_gemini_translation
    posts,       \* observation: per row, the number of requests sent
    responses,   \* observation: per row, the responses the endpoint gave
    sleeps,      \* observation: per row, the arguments of time.sleep
    writes,      \* observation: per row, the number of df.at assignments
    progress,    \* observation: the values given to progress_bar.progress
    log          \* observation: the order of the observable events

vars == <<pc, api_key, columns, uploaded_file, df, index, attempt, delay,
          posts, responses, sleeps, writes, progress, log>>

-----------------------------------------------------------------------------
(* Bounds and program constants *)

MaxRows == 2

max_retries == 5

InitialDelay == 1

-----------------------------------------------------------------------------
(* Python values and str.strip *)

Str(s) == [type |-> "str", val |-> s]

NaN == [type |-> "float", val |-> <<"nan">>]

Number == [type |-> "int", val |-> <<"42">>]

WhiteSpace == {" "}

RECURSIVE lstrip(_)
lstrip(s) ==
    IF s # <<>> /\ Head(s) \in WhiteSpace THEN lstrip(Tail(s)) ELSE s

RECURSIVE rstrip(_)
rstrip(s) ==
    IF s # <<>> /\ s[Len(s)] \in WhiteSpace
    THEN rstrip(SubSeq(s, 1, Len(s) - 1))
    ELSE s

strip(s) == rstrip(lstrip(s))

isinstance_str(v) == v.type = "str"

\* Python truthiness of a str: the empty string is falsy
truthy(s) == s # <<>>

-----------------------------------------------------------------------------
(* The remote endpoint: what one requests.post can produce *)

EmptyDict == [x \in {} |-> x]

GoodTexts == { <<"Ola">>, <<" ", "Ola", " ">> }

GoodPayload(t) ==
    [candidates |-> << [content |-> [parts |-> << [text |-> t] >>]] >>]

\* the bodies of a 2xx answer that lack the expected shape
Payload(shape) ==
    CASE shape = "no_candidates"    -> EmptyDict
      [] shape = "empty_candidates" -> [candidates |-> <<>>]
      [] shape = "no_content"       ->
            [candidates |-> << [finishReason |-> "SAFETY"] >>]
      [] shape = "no_parts"         ->
            [candidates |-> << [content |-> EmptyDict] >>]
      [] shape = "empty_parts"      ->
            [candidates |-> << [content |-> [parts |-> <<>>]] >>]
      [] shape = "no_text"          ->
            [candidates |-> << [content |-> [parts |-> << EmptyDict >>]] >>]

MalformedShapes ==
    { "no_candidates", "empty_candidates", "no_content",
      "no_parts", "empty_parts", "no_text" }

ErrorStatuses == { 429, 500, 403 }

\* kind "raise": requests.post raised; kind "http": an answer with a status.
\* body "good" carries `text`; body "invalid" is a 2xx answer whose body is
\* not JSON; any other body names a malformed shape.
Response(kind, status, body, text) ==
    [kind |-> kind, status |-> status, body |-> body, text |-> text]

Responses ==
    { Response("raise", 0, "none", <<>>) }
    \cup { Response("http", s, "none", <<>>) : s \in ErrorStatuses }
    \cup { Response("http", 200, "invalid", <<>>) }
    \cup { Response("http", 200, b, <<>>) : b \in MalformedShapes }
    \cup { Response("http", 200, "good", t) : t \in GoodTexts }

response_json(r) ==
    IF r.body = "good" THEN GoodPayload(r.text) ELSE Payload(r.body)

-----------------------------------------------------------------------------
(* The strings get_gemini_translation returns *)

ErrUnexpected == <<"Error:", " ", "Unexpected", " ", "response", " ", "format.">>

ErrHttp(status) == <<"Error:", " ", "HTTP", " ", ToString(status)>>

ErrApiCall == <<"Error:", " ", "API", " ", "call", " ", "failed.">>

ErrMaxRetries == <<"Error:", " ", "Max", " ", "retries", " ", "exceeded.">>

-----------------------------------------------------------------------------
(* One pass through the body of `for attempt in range(max_retries)`, given  *)
(* what requests.post produced.  The result says how the pass ends:        *)
(* "return" with the returned string, or "sleep" (the 429 branch).         *)

Return(v) == [act |-> "return", value |-> v]

Backoff == [act |-> "sleep", value |-> <<>>]

\* response.raise_for_status() raises HTTPError for 4xx and 5xx
raise_for_status(r) == r.status >= 400 /\ r.status < 600

\* the text is returned as received
navigate_noStrip(result) ==
    IF "candidates" \in DOMAIN result /\ result.candidates # <<>>
    THEN LET c0 == result.candidates[1] IN
         IF "content" \in DOMAIN c0 /\ "parts" \in DOMAIN c0.content
         THEN LET parts == c0.content.parts IN
              IF parts = <<>> THEN Return(ErrApiCall)
              ELSE IF "text" \notin DOMAIN parts[1] THEN Return(ErrApiCall)
              ELSE Return(parts[1].text)
         ELSE Return(ErrUnexpected)
    ELSE Return(ErrUnexpected)

\* lines 86-93: navigate the decoded body.  An IndexError or KeyError in
\* line 88 is caught by `except Exception` (lines 104-106).
navigate(result) ==
    IF "candidates" \in DOMAIN result /\ result.candidates # <<>>
    THEN LET c0 == result.candidates[1] IN
         IF "content" \in DOMAIN c0 /\ "parts" \in DOMAIN c0.content
         THEN LET parts == c0.content.parts IN
              IF parts = <<>> THEN Return(ErrApiCall)
              ELSE IF "text" \notin DOMAIN parts[1] THEN Return(ErrApiCall)
              ELSE Return(strip(parts[1].text))
         ELSE Return(ErrUnexpected)
    ELSE Return(ErrUnexpected)

\* every HTTP error status takes the backoff branch
attempt_body_retryAnyStatus(r) ==
    IF r.kind = "raise" THEN Return(ErrApiCall)
    ELSE IF raise_for_status(r) THEN Backoff
    ELSE IF r.body = "invalid" THEN Return(ErrApiCall)
    ELSE navigate(response_json(r))

\* an exception raised by the request takes the backoff branch
attempt_body_retryRaise(r) ==
    IF r.kind = "raise" THEN Backoff
    ELSE IF raise_for_status(r)
         THEN IF r.status = 429 THEN Backoff ELSE Return(ErrHttp(r.status))
    ELSE IF r.body = "invalid" THEN Return(ErrApiCall)
    ELSE navigate(response_json(r))

\* a 5xx answer takes the backoff branch as 429 does
attempt_body_retryServerError(r) ==
    IF r.kind = "raise" THEN Return(ErrApiCall)
    ELSE IF raise_for_status(r)
         THEN IF r.status = 429 \/ r.status >= 500 THEN Backoff
              ELSE Return(ErrHttp(r.status))
    ELSE IF r.body = "invalid" THEN Return(ErrApiCall)
    ELSE navigate(response_json(r))

attempt_body(r) ==
    IF r.kind = "raise" THEN Return(ErrApiCall)
    ELSE IF raise_for_status(r)
         THEN IF r.status = 429 THEN Backoff ELSE Return(ErrHttp(r.status))
    ELSE IF r.body = "invalid" THEN Return(ErrApiCall)
    ELSE navigate(response_json(r))

\* the guard without the strip
translatable_noStrip(english_text) ==
    isinstance_str(english_text) /\ truthy(english_text.val)

\* line 205: the guard that decides whether a row is sent to the endpoint
translatable(english_text) ==
    isinstance_str(english_text) /\ truthy(strip(english_text.val))

-----------------------------------------------------------------------------
(* Inputs *)

\* the key of the row at position i (1-based); the column is never read
KeyAt(i) == Str(<<"k", ToString(i)>>)

SourceTexts ==
    { NaN, Number, Str(<<>>), Str(<<" ">>), Str(<<" ", "Hi">>) }

RequiredColumns == { "key", "english_string" }

\* every table with the given columns and n rows
Tables(cols, n) ==
    { [i \in 1..n |->
          [c \in cols |-> IF c = "key" THEN KeyAt(i) ELSE texts[i]]] :
      texts \in [1..n -> SourceTexts] }

ApiKeys == { "", "secret" }

NoRows(n) == [i \in 1..n |-> <<>>]

Event(ev, row) == [ev |-> ev, row |-> row]

Init ==
    /\ pc = "uploaded"
    /\ api_key \in ApiKeys
    /\ columns \in SUBSET RequiredColumns
    /\ \E n \in 0..MaxRows : df \in Tables(columns, n)
    /\ uploaded_file = df
    /\ index = 0
    /\ attempt = 0
    /\ delay = 0
    /\ posts = [i \in 1..Len(df) |-> 0]
    /\ responses = NoRows(Len(df))
    /\ sleeps = NoRows(Len(df))
    /\ writes = [i \in 1..Len(df) |-> 0]
    /\ progress = <<>>
    /\ log = <<>>

total_rows == Len(df)

obs == <<posts, responses, sleeps, writes, progress>>

-----------------------------------------------------------------------------
(* The script body, lines 176-225 *)

\* lines 181-182: a required column is missing
RejectColumns ==
    /\ pc = "uploaded"
    /\ ~ (RequiredColumns \subseteq columns)
    /\ pc' = "rejected"
    /\ log' = Append(log, Event("error_columns", -1))
    /\ UNCHANGED <<api_key, uploaded_file, columns, df, index, attempt, delay, obs>>

\* lines 183-185: the preview is shown and the button is offered
Preview ==
    /\ pc = "uploaded"
    /\ RequiredColumns \subseteq columns
    /\ pc' = "preview"
    /\ UNCHANGED <<api_key, uploaded_file, columns, df, index, attempt, delay, obs, log>>

\* lines 187-189: the button is clicked without an API key
RejectNoKey ==
    /\ pc = "preview"
    /\ api_key = ""
    /\ pc' = "rejected"
    /\ log' = Append(log, Event("warning_api_key", -1))
    /\ UNCHANGED <<api_key, uploaded_file, columns, df, index, attempt, delay, obs>>

\* the translation starts whether or not an API key was entered
StartTranslation_noKeyCheck ==
    /\ pc = "preview"
    /\ columns' = columns \cup {"portuguese_string"}
    /\ df' = [i \in 1..Len(df) |->
                [c \in columns \cup {"portuguese_string"} |->
                    IF c = "portuguese_string" THEN Str(<<>>) ELSE df[i][c]]]
    /\ index' = 0
    /\ pc' = "rowloop"
    /\ UNCHANGED <<api_key, uploaded_file, attempt, delay, obs, log>>

\* lines 187-196: the button is clicked with an API key; the new column
\* is initialised to '' in every row
StartTranslation ==
    /\ pc = "preview"
    /\ api_key # ""
    /\ columns' = columns \cup {"portuguese_string"}
    /\ df' = [i \in 1..Len(df) |->
                [c \in columns \cup {"portuguese_string"} |->
                    IF c = "portuguese_string" THEN Str(<<>>) ELSE df[i][c]]]
    /\ index' = 0
    /\ pc' = "rowloop"
    /\ UNCHANGED <<api_key, uploaded_file, attempt, delay, obs, log>>

\* the result is stored in the `key` column
Record_wrongColumn(v, before) ==
    /\ df' = [df EXCEPT ![index + 1] = [@ EXCEPT !["key"] = Str(v)]]
    /\ writes' = [writes EXCEPT ![index + 1] = @ + 1]
    /\ progress' = Append(progress, [num |-> index + 1, den |-> total_rows])
    /\ log' = log \o << before, Event("write", index),
                         Event("progress", index) >>
    /\ index' = index + 1
    /\ attempt' = 0
    /\ delay' = 0
    /\ pc' = "rowloop"

\* a failed row ends the loop
Record_stopOnFailure(v, before) ==
    /\ df' = [df EXCEPT ![index + 1] =
                [@ EXCEPT !["portuguese_string"] = Str(v)]]
    /\ writes' = [writes EXCEPT ![index + 1] = @ + 1]
    /\ progress' = Append(progress, [num |-> index + 1, den |-> total_rows])
    /\ log' = log \o << before, Event("write", index),
                         Event("progress", index) >>
    /\ index' = index + 1
    /\ attempt' = 0
    /\ delay' = 0
    /\ pc' = IF v # <<>> /\ v[1] = "Error:" THEN "done" ELSE "rowloop"

\* the result is assigned to the whole column instead of the row's cell
Record_wholeColumn(v, before) ==
    /\ df' = [i \in 1..Len(df) |->
                [df[i] EXCEPT !["portuguese_string"] = Str(v)]]
    /\ writes' = [writes EXCEPT ![index + 1] = @ + 1]
    /\ progress' = Append(progress, [num |-> index + 1, den |-> total_rows])
    /\ log' = log \o << before, Event("write", index),
                         Event("progress", index) >>
    /\ index' = index + 1
    /\ attempt' = 0
    /\ delay' = 0
    /\ pc' = "rowloop"

\* lines 207/210 and 213: df.at[index, 'portuguese_string'] = v, then the
\* progress bar, then on to the next row
\* `before` is what the caller has just done
Record(v, before) ==
    /\ df' = [df EXCEPT ![index + 1] =
                [@ EXCEPT !["portuguese_string"] = Str(v)]]
    /\ writes' = [writes EXCEPT ![index + 1] = @ + 1]
    /\ progress' = Append(progress, [num |-> index + 1, den |-> total_rows])
    /\ log' = log \o << before, Event("write", index),
                         Event("progress", index) >>
    /\ index' = index + 1
    /\ attempt' = 0
    /\ delay' = 0
    /\ pc' = "rowloop"

\* a row that is not sent to the endpoint is never left: the loop does not
\* advance
SkipRow_stuck ==
    /\ pc = "rowloop"
    /\ index < total_rows
    /\ ~ translatable(df[index + 1]["english_string"])
    /\ UNCHANGED vars

\* the progress bar is moved only for rows that were sent to the endpoint
SkipRow_noProgress ==
    /\ pc = "rowloop"
    /\ index < total_rows
    /\ ~ translatable(df[index + 1]["english_string"])
    /\ df' = [df EXCEPT ![index + 1] =
                [@ EXCEPT !["portuguese_string"] = Str(<<>>)]]
    /\ writes' = [writes EXCEPT ![index + 1] = @ + 1]
    /\ log' = log \o << Event("status_text", index), Event("write", index) >>
    /\ index' = index + 1
    /\ attempt' = 0
    /\ delay' = 0
    /\ pc' = "rowloop"
    /\ UNCHANGED <<api_key, uploaded_file, columns, posts, responses, sleeps,
                   progress>>

\* lines 198-199, 205, 208-213: a row that is not sent to the endpoint
SkipRow ==
    /\ pc = "rowloop"
    /\ index < total_rows
    /\ ~ translatable(df[index + 1]["english_string"])
    /\ Record(<<>>, Event("status_text", index))
    /\ UNCHANGED <<api_key, uploaded_file, columns, posts, responses, sleeps>>

\* the attempt number and the delay go on from where the previous row's
\* call left them
BeginTranslate_sharedState ==
    /\ pc = "rowloop"
    /\ index < total_rows
    /\ translatable(df[index + 1]["english_string"])
    /\ attempt' = IF index = 0 THEN 0 ELSE Len(sleeps[index]) % max_retries
    /\ delay' = IF index = 0 THEN InitialDelay
                ELSE InitialDelay * 2 ^ (Len(sleeps[index]) % max_retries)
    /\ pc' = "post"
    /\ log' = Append(log, Event("status_text", index))
    /\ UNCHANGED <<api_key, uploaded_file, columns, df, index, obs>>

\* lines 198-199, 205-206 and 75-76: get_gemini_translation is entered
BeginTranslate ==
    /\ pc = "rowloop"
    /\ index < total_rows
    /\ translatable(df[index + 1]["english_string"])
    /\ attempt' = 0
    /\ delay' = InitialDelay
    /\ pc' = "post"
    /\ log' = Append(log, Event("status_text", index))
    /\ UNCHANGED <<api_key, uploaded_file, columns, df, index, obs>>

\* line 80: the request is sent
Post ==
    /\ pc = "post"
    /\ posts' = [posts EXCEPT ![index + 1] = @ + 1]
    /\ log' = Append(log, Event("post", index))
    /\ pc' = "inflight"
    /\ UNCHANGED <<api_key, uploaded_file, columns, df, index, attempt, delay,
                   responses, sleeps, writes, progress>>

\* lines 80-106: the request ends with r; the pass either returns, and the
\* returned string is stored in the row, or starts the backoff sleep
Receive(r) ==
    /\ pc = "inflight"
    /\ responses' = [responses EXCEPT ![index + 1] = Append(@, r)]
    /\ LET res == attempt_body(r) IN
       IF res.act = "return"
       THEN /\ Record(res.value, Event("response", index))
            /\ UNCHANGED <<api_key, uploaded_file, columns, posts, sleeps>>
       ELSE /\ sleeps' = [sleeps EXCEPT ![index + 1] = Append(@, delay)]
            /\ log' = log \o << Event("response", index),
                                 Event("sleep", index) >>
            /\ pc' = "sleeping"
            /\ UNCHANGED <<api_key, uploaded_file, columns, df, index, attempt,
                           delay, posts, writes, progress>>

\* running out of attempts raises instead of returning: the run is over
Wake_raises ==
    /\ pc = "sleeping"
    /\ IF attempt + 1 < max_retries
       THEN /\ delay' = delay * 2
            /\ attempt' = attempt + 1
            /\ pc' = "post"
            /\ UNCHANGED <<api_key, uploaded_file, columns, df, index, obs, log>>
       ELSE /\ pc' = "done"
            /\ log' = Append(log, Event("error_retries", index))
            /\ UNCHANGED <<api_key, uploaded_file, columns, df, index,
                           attempt, delay, obs>>

\* the delay grows by one second instead of doubling
Wake_linearBackoff ==
    /\ pc = "sleeping"
    /\ IF attempt + 1 < max_retries
       THEN /\ delay' = delay + 1
            /\ attempt' = attempt + 1
            /\ pc' = "post"
            /\ UNCHANGED <<api_key, uploaded_file, columns, df, index, obs, log>>
       ELSE /\ Record(ErrMaxRetries, Event("error_retries", index))
            /\ UNCHANGED <<api_key, uploaded_file, columns, posts, responses, sleeps>>

\* one attempt too many
Wake_offByOne ==
    /\ pc = "sleeping"
    /\ IF attempt + 1 <= max_retries
       THEN /\ delay' = delay * 2
            /\ attempt' = attempt + 1
            /\ pc' = "post"
            /\ UNCHANGED <<api_key, uploaded_file, columns, df, index, obs, log>>
       ELSE /\ Record(ErrMaxRetries, Event("error_retries", index))
            /\ UNCHANGED <<api_key, uploaded_file, columns, posts, responses, sleeps>>

\* lines 99-100, 78 and 108-109: the sleep ends, the delay doubles, and the
\* loop either goes round again or runs out
Wake ==
    /\ pc = "sleeping"
    /\ IF attempt + 1 < max_retries
       THEN /\ delay' = delay * 2
            /\ attempt' = attempt + 1
            /\ pc' = "post"
            /\ UNCHANGED <<api_key, uploaded_file, columns, df, index, obs, log>>
       ELSE /\ Record(ErrMaxRetries, Event("error_retries", index))
            /\ UNCHANGED <<api_key, uploaded_file, columns, posts, responses, sleeps>>

\* line 215: the loop is over
Finish ==
    /\ pc = "rowloop"
    /\ index = total_rows
    /\ pc' = "done"
    /\ log' = Append(log, Event("complete", -1))
    /\ UNCHANGED <<api_key, uploaded_file, columns, df, index, attempt, delay, obs>>

Next ==
    \/ RejectColumns
    \/ Preview
    \/ RejectNoKey
    \/ StartTranslation
    \/ SkipRow
    \/ BeginTranslate
    \/ Post
    \/ \E r \in Responses : Receive(r)
    \/ Wake
    \/ Finish

Spec == Init /\ [][Next]_vars

\* The script is sequential code: once the button is clicked each statement
\* is followed by the next.  A request that is sent ends with an answer or
\* an exception, and a sleep ends.
Fairness ==
    /\ WF_vars(SkipRow)
    /\ WF_vars(BeginTranslate)
    /\ WF_vars(Post)
    /\ WF_vars(\E r \in Responses : Receive(r))
    /\ WF_vars(Wake)
    /\ WF_vars(Finish)

FairSpec == Init /\ [][Next]_vars /\ Fairness

-----------------------------------------------------------------------------
(* Vocabulary of the properties.  Rows are named by their 0-based index.   *)

Rows == 0 .. Len(uploaded_file) - 1

\* the number of requests sent for row i
PostCount(i) == posts[i + 1]

\* row i has its outcome recorded
Recorded(i) == writes[i + 1] >= 1

\* the outcome string stored for row i
Outcome(i) == df[i + 1]["portuguese_string"]

SourceOf(i) == uploaded_file[i + 1]["english_string"]

\* absent, not textual, empty or made of white space only
Blank(v) ==
    \/ v.type # "str"
    \/ \A k \in 1..Len(v.val) : v.val[k] = " "

\* u is t without its leading and trailing white space
Trimmed(t, u) ==
    /\ \E a, b \in 0..Len(t) :
          /\ a + b <= Len(t)
          /\ u = SubSeq(t, a + 1, Len(t) - b)
          /\ \A k \in 1..a : t[k] = " "
          /\ \A k \in (Len(t) - b + 1)..Len(t) : t[k] = " "
    /\ u # <<>> => u[1] # " " /\ u[Len(u)] # " "

Is429(r) == r.kind = "http" /\ r.status = 429

IsGood(r) == r.kind = "http" /\ r.status = 200 /\ r.body = "good"

IsHttpError(r) == r.kind = "http" /\ r.status >= 400 /\ r.status # 429

IsMalformed(r) ==
    r.kind = "http" /\ r.status = 200 /\ r.body \in MalformedShapes

IsTransport(r) == r.kind = "raise" \/ (r.kind = "http" /\ r.body = "invalid")

\* the first k responses of row i were all 429
All429(i, k) == \A j \in 1..k : Is429(responses[i + 1][j])

FailureStrings ==
    { ErrUnexpected, ErrApiCall, ErrMaxRetries }
    \cup { <<"Error:", " ", "HTTP", " ", "500">>,
           <<"Error:", " ", "HTTP", " ", "403">> }

Failed(i) == Recorded(i) /\ Outcome(i).val \in FailureStrings

RunStarted == "portuguese_string" \in columns

-----------------------------------------------------------------------------
(* C1: when the run finishes the table has as many rows as were uploaded   *)
(* and every row has exactly one recorded outcome, failed rows included.   *)
C1_OneOutcomePerRow ==
    pc = "done" =>
        /\ Len(df) = Len(uploaded_file)
        /\ \A i \in Rows :
              /\ writes[i + 1] = 1
              /\ "portuguese_string" \in DOMAIN df[i + 1]
              /\ Outcome(i).type = "str"

C1_Witness ==
    /\ pc = "done"
    /\ Len(df) >= 2
    /\ \E i, j \in Rows :
          /\ Failed(i)
          /\ Blank(SourceOf(j))
          /\ writes[j + 1] = 1

\* the key column of the table is the uploaded key column
KeysKept ==
    "key" \in columns =>
        /\ Len(df) = Len(uploaded_file)
        /\ \A i \in Rows : df[i + 1]["key"] = uploaded_file[i + 1]["key"]

\* a step that sends a request sends one request, for the first row that
\* has no outcome yet, when no request is still unanswered
SendStep ==
    posts' # posts =>
        \E j \in Rows :
            /\ posts' = [posts EXCEPT ![j + 1] = @ + 1]
            /\ log' = Append(log, Event("post", j))
            /\ \A i \in Rows : Recorded(i) <=> i < j
            /\ \A i \in Rows : Len(responses[i + 1]) = posts[i + 1]

(* C2: rows are handled one at a time in input order: a request for a row  *)
(* is sent only after every earlier row has its outcome recorded, every    *)
(* request is answered before the next one is sent, and the key column of  *)
(* the table is the uploaded key column, unchanged.                        *)
C2_SequentialInOrder == [] KeysKept /\ [][SendStep]_vars

C2_Witness ==
    /\ pc = "done"
    /\ \E i, j \in Rows :
          /\ i < j
          /\ PostCount(i) >= 2
          /\ PostCount(j) >= 1
          /\ df[i + 1]["key"] # df[j + 1]["key"]

(* C3: a row whose source text is absent, not textual, empty or white      *)
(* space only is never sent to the endpoint and its outcome is the empty   *)
(* string; a request is sent only for a row whose text is a string that    *)
(* is not blank after trimming.                                            *)
C3_SkipRule ==
    RunStarted =>
        \A i \in Rows :
            /\ Blank(SourceOf(i)) =>
                  /\ PostCount(i) = 0
                  /\ responses[i + 1] = <<>>
                  /\ Outcome(i) = Str(<<>>)
                  /\ index > i => writes[i + 1] = 1
            /\ PostCount(i) > 0 =>
                  /\ SourceOf(i).type = "str"
                  /\ \E k \in 1..Len(SourceOf(i).val) : SourceOf(i).val[k] # " "

C3_Witness ==
    /\ pc = "done"
    /\ \E i, j \in Rows :
          /\ SourceOf(i) = Str(<<" ">>)
          /\ Recorded(i)
          /\ PostCount(i) = 0
          /\ PostCount(j) > 0

(* C4: 429 on the first k requests (k <= 4) and then a well-formed answer: *)
(* the call returns that answer's trimmed text after exactly k + 1         *)
(* requests, having slept k times, for 1, 2, 4, ... seconds in that order. *)
C4_RetryThenSuccess ==
    \A i \in Rows :
        LET rs == responses[i + 1]
            k  == Len(rs) - 1
        IN  (rs # <<>> /\ IsGood(rs[Len(rs)]) /\ All429(i, k)) =>
               /\ k <= 4
               /\ PostCount(i) = k + 1
               /\ Recorded(i)
               /\ Outcome(i).type = "str"
               /\ Trimmed(rs[Len(rs)].text, Outcome(i).val)
               /\ sleeps[i + 1] = [j \in 1..k |-> 2 ^ (j - 1)]

C4_Witness ==
    \E i, j \in Rows :
        /\ Len(responses[i + 1]) = 3
        /\ IsGood(responses[i + 1][3])
        /\ responses[i + 1][3].text = <<" ", "Ola", " ">>
        /\ sleeps[i + 1] = <<1, 2>>
        /\ Outcome(i) = Str(<<"Ola">>)
        /\ Len(responses[j + 1]) = 5
        /\ IsGood(responses[j + 1][5])
        /\ sleeps[j + 1] = <<1, 2, 4, 8>>

(* C5: 429 on every request: exactly 5 requests are sent, never a 6th, and *)
(* the call then returns the retries-exhausted failure as a value, which   *)
(* is recorded for the row.                                                *)
C5_RetriesExhausted ==
    \A i \in Rows :
        /\ PostCount(i) <= 5
        /\ Len(responses[i + 1]) <= 5
        /\ (Len(responses[i + 1]) = 5 /\ All429(i, 5)) =>
              \/ pc = "sleeping" /\ index = i
              \/ /\ writes[i + 1] = 1
                 /\ Outcome(i) = Str(ErrMaxRetries)
                 /\ index > i
                 /\ PostCount(i) = 5
        /\ (Recorded(i) /\ Outcome(i) = Str(ErrMaxRetries)) =>
              Len(responses[i + 1]) = 5 /\ All429(i, 5)

C5_Witness ==
    \E i \in Rows :
        /\ Len(responses[i + 1]) = 5
        /\ All429(i, 5)
        /\ Outcome(i) = Str(ErrMaxRetries)
        /\ pc = "done"

(* C6: an HTTP error status other than 429, on the first request or on a   *)
(* later one, ends the call at once with the HTTP failure for that status: *)
(* no request and no sleep follows it.                                     *)
C6_HttpErrorNotRetried ==
    \A i \in Rows :
        \A k \in 1..Len(responses[i + 1]) :
            LET r == responses[i + 1][k] IN
            IsHttpError(r) =>
               /\ k = Len(responses[i + 1])
               /\ PostCount(i) = k
               /\ Len(sleeps[i + 1]) = k - 1
               /\ All429(i, k - 1)
               /\ writes[i + 1] = 1
               /\ Outcome(i) = Str(<<"Error:", " ", "HTTP", " ",
                                     IF r.status = 500 THEN "500" ELSE "403">>)
               /\ ~ (pc \in {"post", "inflight", "sleeping"} /\ index = i)

C6_Witness ==
    \E i, j \in Rows :
        /\ responses[i + 1] = << Response("http", 500, "none", <<>>) >>
        /\ PostCount(i) = 1
        /\ sleeps[i + 1] = <<>>
        /\ Len(responses[j + 1]) = 3
        /\ responses[j + 1][3].status = 403
        /\ Recorded(j)

(* C7: a 2xx answer whose body lacks the expected shape (no candidates, an *)
(* empty candidate list, a candidate without content, content without      *)
(* parts, an empty parts list, a part without text) ends the call at once  *)
(* with the malformed-response failure, which is neither the transport     *)
(* failure nor an HTTP failure.                                            *)
C7_MalformedResponse ==
    \A i \in Rows :
        \A k \in 1..Len(responses[i + 1]) :
            IsMalformed(responses[i + 1][k]) =>
               /\ k = Len(responses[i + 1])
               /\ PostCount(i) = k
               /\ Len(sleeps[i + 1]) = k - 1
               /\ writes[i + 1] = 1
               /\ Outcome(i) = Str(ErrUnexpected)
               /\ Outcome(i) # Str(ErrApiCall)

(* C8: a request that raises (network failure, timeout, a body that cannot *)
(* be decoded) ends the call at once with the transport failure as a       *)
(* value: no request and no sleep follows it, and the run goes on.         *)
C8_TransportErrorNotRetried ==
    \A i \in Rows :
        \A k \in 1..Len(responses[i + 1]) :
            IsTransport(responses[i + 1][k]) =>
               /\ k = Len(responses[i + 1])
               /\ PostCount(i) = k
               /\ Len(sleeps[i + 1]) = k - 1
               /\ All429(i, k - 1)
               /\ writes[i + 1] = 1
               /\ Outcome(i) = Str(ErrApiCall)
               /\ index > i
               /\ pc \in {"rowloop", "post", "inflight", "sleeping", "done"}

C8_Witness ==
    \E i, j \in Rows :
        /\ responses[i + 1] = << Response("raise", 0, "none", <<>>) >>
        /\ Outcome(i) = Str(ErrApiCall)
        /\ Len(responses[j + 1]) = 2
        /\ responses[j + 1][2] = Response("http", 200, "invalid", <<>>)
        /\ Recorded(j)

\* the outcome of row i is the one its own source text and its own
\* responses call for
OwnOutcome(i) ==
    LET rs   == responses[i + 1]
        last == rs[Len(rs)]
        out  == Outcome(i).val
    IN  IF Blank(SourceOf(i)) THEN out = <<>> /\ rs = <<>>
        ELSE /\ rs # <<>>
             /\ All429(i, Len(rs) - 1)
             /\ IsGood(last)      => Trimmed(last.text, out)
             /\ IsHttpError(last) => out = <<"Error:", " ", "HTTP", " ",
                                       IF last.status = 500 THEN "500" ELSE "403">>
             /\ IsTransport(last) => out = ErrApiCall
             /\ IsMalformed(last) => out \in {ErrUnexpected, ErrApiCall}
             /\ Is429(last)       => out = ErrMaxRetries /\ Len(rs) = 5

(* C9: a failed row is recorded as failed and the run goes on: every row   *)
(* before the current one has the outcome its own text and responses call  *)
(* for, whatever happened to the other rows, and a finished run has done   *)
(* so for every row.                                                       *)
C9_FailureIsolation ==
    /\ pc \in {"uploaded", "preview", "rejected", "rowloop", "post",
               "inflight", "sleeping", "done"}
    /\ pc = "rejected" => ~ RunStarted
    /\ RunStarted =>
          /\ index <= total_rows
          /\ pc = "done" => index = total_rows
          /\ \A i \in Rows :
                /\ Recorded(i) <=> i < index
                /\ Recorded(i) => OwnOutcome(i)

C9_Witness ==
    /\ pc = "done"
    /\ \E i, j \in Rows :
          /\ i < j
          /\ responses[i + 1] = << Response("raise", 0, "none", <<>>) >>
          /\ Outcome(i) = Str(ErrApiCall)
          /\ responses[j + 1] # <<>>
          /\ IsGood(responses[j + 1][Len(responses[j + 1])])
          /\ Outcome(j) = Str(<<"Ola">>)

(* C10: when the `key` or the `english_string` column is missing, or no    *)
(* API key was entered, the problem is reported and nothing else happens:  *)
(* no request is sent, no row is processed, no outcome is recorded.        *)
C10_BatchErrorsFirst ==
    (~ (RequiredColumns \subseteq columns) \/ api_key = "") =>
        /\ \A k \in 1..Len(log) :
              log[k].ev \in {"error_columns", "warning_api_key"}
        /\ Len(log) <= 1
        /\ pc \in {"uploaded", "preview", "rejected"}
        /\ pc = "rejected" => Len(log) = 1
        /\ index = 0
        /\ df = uploaded_file
        /\ ~ RunStarted
        /\ \A i \in Rows : writes[i + 1] = 0 /\ responses[i + 1] = <<>>
        /\ progress = <<>>

C10_Witness ==
    /\ pc = "rejected"
    /\ api_key = ""
    /\ RequiredColumns \subseteq columns
    /\ \E i \in Rows : ~ Blank(SourceOf(i))


\* the reports made so far are 1/n, 2/n, ... one for each recorded row
ProgressCounts ==
    /\ Len(progress) = Cardinality({ i \in Rows : Recorded(i) })
    /\ \A k \in 1..Len(progress) :
          progress[k] = [num |-> k, den |-> Len(uploaded_file)]
    /\ pc = "done" => Len(progress) = Len(uploaded_file)

\* a step that records the outcome of a row reports once, after the write,
\* with the new number of recorded rows; no other step reports
ProgressStep ==
    /\ progress' # progress =>
          \E i \in Rows :
             /\ writes[i + 1] = 0
             /\ writes'[i + 1] = 1
             /\ progress' = Append(progress,
                    [num |-> Cardinality({ j \in Rows : writes'[j + 1] >= 1 }),
                     den |-> Len(uploaded_file)])
             /\ Len(log') >= 2
             /\ log'[Len(log') - 1] = Event("write", i)
             /\ log'[Len(log')] = Event("progress", i)
    /\ writes' # writes => Len(progress') = Len(progress) + 1

(* C11: the progress report is made once per row, after the row's outcome  *)
(* has been recorded and whatever the outcome is; the reported count is    *)
(* the number of rows recorded so far, so a run of n rows reports          *)
(* 1, 2, ..., n out of n.                                                  *)
C11_ProgressAccounting == [] ProgressCounts /\ [][ProgressStep]_vars

C11_Witness ==
    /\ pc = "done"
    /\ Len(progress) >= 2
    /\ \E i, j \in Rows :
          /\ Failed(i)
          /\ Blank(SourceOf(j))
          /\ Outcome(j) = Str(<<>>)


\* how the call for row i ended: "Skipped", "Success", "Failed", or "none"
\* while the row has no outcome
OutcomeKind(i) ==
    LET rs == responses[i + 1] IN
    IF ~ Recorded(i) THEN "none"
    ELSE IF rs = <<>> THEN "Skipped"
    ELSE IF IsGood(rs[Len(rs)]) THEN "Success"
    ELSE "Failed"

\* a fixed "Error: ..." message, carrying at most the status code
Placeholder(s) ==
    /\ s \in FailureStrings
    /\ s[1] = "Error:"

(* C12: the stored string of a row follows from the row's outcome alone:   *)
(* the trimmed text of the answer for a success, the empty string for a    *)
(* skipped row, and an error-tagged placeholder for every kind of failure. *)
C12_OutputProjection ==
    RunStarted =>
        \A i \in Rows :
            LET rs  == responses[i + 1]
                out == Outcome(i)
            IN  /\ out.type = "str"
                /\ OutcomeKind(i) = "none"    => out.val = <<>>
                /\ OutcomeKind(i) = "Skipped" => out.val = <<>>
                /\ OutcomeKind(i) = "Success" =>
                      Trimmed(rs[Len(rs)].text, out.val)
                /\ OutcomeKind(i) = "Failed"  => Placeholder(out.val)

C12_Witness ==
    /\ pc = "done"
    /\ \E i, j \in Rows :
          /\ OutcomeKind(i) = "Success"
          /\ responses[i + 1][Len(responses[i + 1])].text = <<" ", "Ola", " ">>
          /\ Outcome(i) = Str(<<"Ola">>)
          /\ OutcomeKind(j) = "Failed"
          /\ Outcome(j) = Str(ErrUnexpected)


\* the delays 1, 2, 4, ... of n sleeps
Doubling(n) == [j \in 1..n |-> 2 ^ (j - 1)]

(* C13: a sleep happens only before a retry: a call that has made n        *)
(* requests has slept n - 1 times once it is over (and n - 1 or n times    *)
(* while it runs), the delays are 1, 2, 4, ..., and a call that used up    *)
(* its 5 requests on 429 has slept 4 times, not after the last request.    *)
C13_SleepOnlyBeforeRetry ==
    \A i \in Rows :
        /\ sleeps[i + 1] = Doubling(Len(sleeps[i + 1]))
        /\ PostCount(i) >= 1 =>
              /\ Len(sleeps[i + 1]) <= PostCount(i)
              /\ Len(sleeps[i + 1]) <= 4
              /\ Recorded(i) => Len(sleeps[i + 1]) = PostCount(i) - 1


\* the number of backoff sleeps of the running call that are over
SleepsOver ==
    Len(sleeps[index + 1]) - (IF pc = "sleeping" THEN 1 ELSE 0)

\* inside a call, attempt and delay count this row's own sleeps only; the
\* call gives up only after five 429 answers of its own
RetryStateOwn ==
    /\ pc \in {"post", "inflight", "sleeping"} =>
          /\ attempt = SleepsOver
          /\ delay = 2 ^ SleepsOver
          /\ attempt < 5
    /\ \A i \in Rows :
          /\ sleeps[i + 1] # <<>> => sleeps[i + 1][1] = 1
          /\ PostCount(i) <= 5
          /\ (Recorded(i) /\ Outcome(i) = Str(ErrMaxRetries)) =>
                (PostCount(i) = 5 /\ All429(i, 5))

\* a step that enters the call for a row starts at attempt 0, delay 1
EnterStep ==
    (pc = "rowloop" /\ pc' = "post") =>
        /\ attempt' = 0
        /\ delay' = 1
        /\ posts'[index' + 1] = 0
        /\ sleeps'[index' + 1] = <<>>

(* C14: retry state belongs to one call: every row's call starts at        *)
(* attempt 0 with a delay of 1 second and has 5 requests of its own,       *)
(* whatever 429 answers, sleeps or failures earlier rows went through.     *)
C14_RetryStatePerRequest == [] RetryStateOwn /\ [][EnterStep]_vars

C14_Witness ==
    \E i, j \in Rows :
        /\ i < j
        /\ Len(sleeps[i + 1]) = 5
        /\ Outcome(i) = Str(ErrMaxRetries)
        /\ PostCount(j) = 5
        /\ sleeps[j + 1] = <<1, 2, 4, 8>>
        /\ Recorded(j)
        /\ OutcomeKind(j) = "Success"


\* no row is written twice
WrittenOnce == \A i \in Rows : writes[i + 1] <= 1

\* a step leaves every recorded outcome, every key and every source text
\* as it was, and writes at most one row
WriteOnceStep ==
    /\ Len(df') = Len(df)
    /\ \A i \in Rows :
          /\ Recorded(i) =>
                /\ writes'[i + 1] = writes[i + 1]
                /\ df'[i + 1]["portuguese_string"] = Outcome(i)
          /\ \A c \in RequiredColumns \cap columns : df'[i + 1][c] = df[i + 1][c]
    /\ Cardinality({ i \in Rows : writes'[i + 1] # writes[i + 1] }) <= 1

(* C15: outcomes are written once: a recorded outcome is never changed by  *)
(* the handling of a later row, no step changes a key or a source text,    *)
(* and each row's outcome is produced exactly once.                        *)
C15_WriteOnce == [] WrittenOnce /\ [][WriteOnceStep]_vars

C15_Witness ==
    /\ pc = "done"
    /\ \E i, j \in Rows :
          /\ i < j
          /\ Outcome(i) = Str(<<"Ola">>)
          /\ Outcome(j) = Str(ErrHttp(500))
          /\ writes[i + 1] = 1
          /\ writes[j + 1] = 1


AllRecorded == \A i \in Rows : Recorded(i)

(* C16: if every request ends and every sleep ends, a run that has started *)
(* returns, and it returns only when every row has a recorded outcome,     *)
(* also when every earlier row failed.                                     *)
C16_Termination ==
    /\ RunStarted ~> pc = "done"
    /\ [] (pc = "done" => AllRecorded)

C16_Witness ==
    /\ pc = "done"
    /\ Len(uploaded_file) >= 2
    /\ \A i \in Rows : Failed(i)


RECURSIVE SumTo(_, _)
SumTo(f, n) == IF n = 0 THEN 0 ELSE f[n] + SumTo(f, n - 1)

\* the number of requests sent in the run so far
TotalPosts == SumTo(posts, Len(posts))

\* the number of rows whose source text is a non-blank string
NonBlankRows == Cardinality({ i \in Rows : ~ Blank(SourceOf(i)) })

(* C17: a call sends at least 1 and at most 5 requests, each request after *)
(* the first follows a 429 answer to the previous request of the same row, *)
(* rows with blank text send none, and so a finished run of m non-blank    *)
(* rows has sent between m and 5 * m requests.                             *)
C17_RemoteCallBound ==
    /\ ~ RunStarted => TotalPosts = 0
    /\ RunStarted =>
     /\ \A i \in Rows :
          /\ PostCount(i) <= 5
          /\ Blank(SourceOf(i)) => PostCount(i) = 0
          /\ (Recorded(i) /\ ~ Blank(SourceOf(i))) => PostCount(i) >= 1
          /\ PostCount(i) >= 2 =>
                /\ Len(responses[i + 1]) >= PostCount(i) - 1
                /\ All429(i, PostCount(i) - 1)
     /\ TotalPosts <= 5 * NonBlankRows
     /\ pc = "done" => TotalPosts >= NonBlankRows

C17_Witness ==
    /\ pc = "done"
    /\ NonBlankRows >= 2
    /\ \E i, j \in Rows :
          /\ PostCount(i) = 1
          /\ PostCount(j) = 5
    /\ TotalPosts > NonBlankRows
    /\ TotalPosts < 5 * NonBlankRows

====
